---- MODULE Spec2Model ----
(***************************************************************************)
(* Model of s6prog.c: a Spartan-6 programmer that drives a JTAG TAP        *)
(* through an FT232H bridge in MPSSE mode.  The command buffer, the TAP    *)
(* move encoders, the chunked data-register transfer, the reply decoder    *)
(* and the receive loop are translated from the C source; the bridge and   *)
(* the TAP are modelled as the hardware the emitted bytes are clocked      *)
(* through.                                                                *)
(***************************************************************************)
EXTENDS Integers, Sequences, FiniteSets, TLC

(***************************************************************************)
(* Program constants (s6prog.c lines 15-48)                                *)
(***************************************************************************)
FDATA_SIZE == 16777216
JTAG_BUFFER_SIZE == 1048576
JTAG_CHUNK_SIZE == 32768
JTAG_RECV_ATTEMPTS == 20
JTAG_STARTUP_DELAY == 500
JTAG_SHUTDOWN_DELAY == 500
JTAG_INSTR_IDCODE == 9
JTAG_INSTR_JSHUTDOWN == 13
JTAG_INSTR_CFG_IN == 5
JTAG_INSTR_JSTART == 12
DATA_CLK_BITS == 142
DATA_CLK_BYTES == 143

\* MPSSE shifting command flags (comment block, lines 105-112)
MPSSE_WRITE_NEG == 1
MPSSE_BITMODE == 2
MPSSE_READ_NEG == 4
MPSSE_LSB == 8
MPSSE_DO_WRITE == 16
MPSSE_DO_READ == 32
MPSSE_WRITE_TMS == 64

(***************************************************************************)
(* Bounds of the model                                                     *)
(***************************************************************************)
\* largest bit length of the exhaustively enumerated small transfers
MaxBits == 17
\* partial transport returns 0..MaxPartial are enumerated besides the full
\* count and the error return
MaxPartial == 1
\* instruction writes a session issues between the ID-code read and the transfer
MaxOps == 1

(***************************************************************************)
(* Pointers to source bytes.  A source buffer is named by a seed that      *)
(* fixes its contents; a pointer is a buffer and an offset into it.        *)
(***************************************************************************)
NULL == [null |-> TRUE, kind |-> "none", seed |-> 0, off |-> 0]

\* &buf[0] of the payload buffer with the given seed
SrcPtr(seed) == [null |-> FALSE, kind |-> "src", seed |-> seed, off |-> 0]

\* &v of a one-byte variable holding v
VarPtr(v) == [null |-> FALSE, kind |-> "var", seed |-> v, off |-> 0]

\* &p[k]
PtrAdd(p, k) == IF p.null THEN p ELSE [p EXCEPT !.off = @ + k]

\* p[i]
Mem(p, i) ==
    IF p.kind = "var" THEN p.seed ELSE (p.seed + 83 * (p.off + i)) % 256

(***************************************************************************)
(* Byte arithmetic                                                         *)
(***************************************************************************)
Pow2 == <<1, 2, 4, 8, 16, 32, 64, 128, 256>>

\* bit i (0 = least significant) of byte b:  (b >> i) & 1
Bit(b, i) == (b \div Pow2[i + 1]) % 2

\* b >> k for a byte
Shr(b, k) == b \div Pow2[k + 1]

\* b & 0x80
And80(b) == 128 * Bit(b, 7)

\* b & ((1 << k) - 1), 0 <= k <= 8
LowBits(b, k) == b % Pow2[k + 1]

Min(a, b) == IF a < b THEN a ELSE b

(***************************************************************************)
(* The standard TAP state graph (IEEE 1149.1)                              *)
(***************************************************************************)
TapStates ==
    {"Reset", "Idle", "SelectDR", "CaptureDR", "ShiftDR", "Exit1DR", "PauseDR",
     "Exit2DR", "UpdateDR", "SelectIR", "CaptureIR", "ShiftIR", "Exit1IR",
     "PauseIR", "Exit2IR", "UpdateIR"}

TapNext(s, tms) ==
    CASE s = "Reset"     -> IF tms = 1 THEN "Reset"    ELSE "Idle"
      [] s = "Idle"      -> IF tms = 1 THEN "SelectDR" ELSE "Idle"
      [] s = "SelectDR"  -> IF tms = 1 THEN "SelectIR" ELSE "CaptureDR"
      [] s = "CaptureDR" -> IF tms = 1 THEN "Exit1DR"  ELSE "ShiftDR"
      [] s = "ShiftDR"   -> IF tms = 1 THEN "Exit1DR"  ELSE "ShiftDR"
      [] s = "Exit1DR"   -> IF tms = 1 THEN "UpdateDR" ELSE "PauseDR"
      [] s = "PauseDR"   -> IF tms = 1 THEN "Exit2DR"  ELSE "PauseDR"
      [] s = "Exit2DR"   -> IF tms = 1 THEN "UpdateDR" ELSE "ShiftDR"
      [] s = "UpdateDR"  -> IF tms = 1 THEN "SelectDR" ELSE "Idle"
      [] s = "SelectIR"  -> IF tms = 1 THEN "Reset"    ELSE "CaptureIR"
      [] s = "CaptureIR" -> IF tms = 1 THEN "Exit1IR"  ELSE "ShiftIR"
      [] s = "ShiftIR"   -> IF tms = 1 THEN "Exit1IR"  ELSE "ShiftIR"
      [] s = "Exit1IR"   -> IF tms = 1 THEN "UpdateIR" ELSE "PauseIR"
      [] s = "PauseIR"   -> IF tms = 1 THEN "Exit2IR"  ELSE "PauseIR"
      [] s = "Exit2IR"   -> IF tms = 1 THEN "UpdateIR" ELSE "ShiftIR"
      [] s = "UpdateIR"  -> IF tms = 1 THEN "SelectDR" ELSE "Idle"

\* a state the TAP stays in for as long as TMS keeps the level tms
TapStable(s, tms) == TapNext(s, tms) = s

(***************************************************************************)
(* Command encoders: the bytes each function stores at jtag_buf[jtag_buf_i]*)
(***************************************************************************)
\* MPSSE_WRITE_TMS | MPSSE_LSB | MPSSE_BITMODE | MPSSE_WRITE_NEG
TmsCmd == MPSSE_WRITE_TMS + MPSSE_LSB + MPSSE_BITMODE + MPSSE_WRITE_NEG

jtag_to_tlr == <<TmsCmd, 4, 159>>

jtag_tlr_to_rti == <<TmsCmd, 0, 128>>

\* a variant one TMS bit short: it would stop in Capture-IR
jtag_rti_to_shift_ir_short == <<TmsCmd, 2, 131>>

jtag_rti_to_shift_ir == <<TmsCmd, 3, 131>>

jtag_rti_to_shift_dr == <<TmsCmd, 2, 129>>

\* a variant with the two TMS bits in the other order
jtag_exit1_ir_to_rti_swapped == <<TmsCmd, 1, 130>>

jtag_exit1_ir_to_rti == <<TmsCmd, 1, 129>>

\* a variant with the two TMS bits in the other order
jtag_exit1_dr_to_rti_swapped == <<TmsCmd, 1, 130>>

jtag_exit1_dr_to_rti == <<TmsCmd, 1, 129>>

\* a variant that drives TMS high before it runs the clock
jtag_rti_spin_bytes_high ==
    <<TmsCmd, 0, 129>> \o
    [i \in 1..(2 * 128) |-> IF i % 2 = 1 THEN DATA_CLK_BITS ELSE 7]

\* the bytes jtag_rti_spin appends before it calls jtag_send
jtag_rti_spin_bytes ==
    <<TmsCmd, 0, 128>> \o
    [i \in 1..(2 * 128) |-> IF i % 2 = 1 THEN DATA_CLK_BITS ELSE 7]

\* a variant that takes each source byte one position too far
jtag_shift_bytes_off(tdi, n, do_read) ==
    << MPSSE_LSB
         + (IF tdi # NULL THEN MPSSE_DO_WRITE + MPSSE_WRITE_NEG ELSE 0)
         + (IF do_read THEN MPSSE_DO_READ ELSE 0),
       (n - 1) % 256,
       ((n - 1) \div 256) % 256 >>
    \o (IF tdi # NULL THEN [i \in 1..n |-> Mem(tdi, i)] ELSE <<>>)

\* tdi is NULL or points at the first source byte
jtag_shift_bytes(tdi, n, do_read) ==
    << MPSSE_LSB
         + (IF tdi # NULL THEN MPSSE_DO_WRITE + MPSSE_WRITE_NEG ELSE 0)
         + (IF do_read THEN MPSSE_DO_READ ELSE 0),
       (n - 1) % 256,
       ((n - 1) \div 256) % 256 >>
    \o (IF tdi # NULL THEN [i \in 1..n |-> Mem(tdi, i - 1)] ELSE <<>>)

\* a variant that shifts all n bits in bit mode and exits on an edge of its own
jtag_shift_bits_then_exit(tdi, n, do_read) ==
    << MPSSE_BITMODE + MPSSE_LSB
         + (IF tdi # NULL THEN MPSSE_DO_WRITE + MPSSE_WRITE_NEG ELSE 0)
         + (IF do_read THEN MPSSE_DO_READ ELSE 0),
       n - 1 >>
    \o (IF tdi # NULL THEN << LowBits(Mem(tdi, 0), n) >> ELSE <<>>)
    \o << TmsCmd + (IF do_read THEN MPSSE_DO_READ ELSE 0), 0, 1 >>

\* tdi is NULL or points at the byte that holds the bits
jtag_shift_bits(tdi, n, do_read) ==
    (IF n > 1
       THEN << MPSSE_BITMODE + MPSSE_LSB
                 + (IF tdi # NULL THEN MPSSE_DO_WRITE + MPSSE_WRITE_NEG ELSE 0)
                 + (IF do_read THEN MPSSE_DO_READ ELSE 0),
               n - 2 >>
            \o (IF tdi # NULL THEN << LowBits(Mem(tdi, 0), n - 1) >> ELSE <<>>)
       ELSE <<>>)
    \o << TmsCmd + (IF do_read THEN MPSSE_DO_READ ELSE 0),
          0,
          IF tdi # NULL
            THEN (IF Bit(Mem(tdi, 0), n - 1) = 1 THEN 129 ELSE 1)
            ELSE 1 >>

\* jtag_ir_write: the 6-bit instruction between the two IR moves
jtag_ir_write(instruction) ==
    jtag_rti_to_shift_ir \o jtag_shift_bits(VarPtr(instruction), 6, FALSE)
      \o jtag_exit1_ir_to_rti

\* a variant that takes the reply bytes as if they were right-aligned
RecvBitsDecodeLow(rbuf, n) ==
    IF n > 1
      THEN LowBits(rbuf[1], n - 1) + Pow2[n] * (rbuf[2] % 2)
      ELSE rbuf[1] % 2

\* the realignment of jtag_recv_bits, rbuf = <<rbuf[0], rbuf[1]>>
RecvBitsDecode(rbuf, n) ==
    IF n > 1
      THEN Shr(And80(rbuf[2]) + Shr(rbuf[1], 1), 8 - n)
      ELSE Shr(And80(rbuf[1]), 7)

\* jtag_get_idcode: (buf[3] << 24) | (buf[2] << 16) | (buf[1] << 8) | buf[0]
\* as the 32-bit int the expression evaluates to
IdcodeOf(buf) ==
    (IF buf[4] >= 128 THEN buf[4] - 256 ELSE buf[4]) * 16777216
      + buf[3] * 65536 + buf[2] * 256 + buf[1]

VARIABLES
    pc,        \* position of the program
    jtag_buf,  \* jtag_buf[0 .. jtag_buf_i-1] as a sequence; jtag_buf_i is its length
    hw,        \* the bridge, the TAP behind it and what was clocked so far
    dev,       \* seed of the bit pattern the device presents on TDO
    stale,     \* what the bridge's read register holds before a bit-mode read
    xport,     \* behaviour of the transport: "ok" (every call moves all bytes) or "any"
    irLog,     \* the instructions passed to jtag_ir_write so far, in order
    wfail,     \* some ftdi_write_data call accepted less than it was given
    dr,        \* arguments and locals of the running jtag_dr_op
    tdo,       \* the caller's capture buffer, -1 where nothing was stored
    rbuf,      \* rbuf[2] of jtag_recv_bits
    rv,        \* arguments and locals of the running jtag_recv
    ret,       \* value the last operation returned
    idcode,    \* *idcode of jtag_get_idcode
    unit,      \* the TAP move under test: its name and the state it started from
    mn         \* main: its position, jtag_buf_i, loop counter and payload length;
               \* failed: a jtag_send of the programming sequence returned 1;
               \* freed: jtag_close has set jtag_buf to NULL; closes: calls of
               \* main_exit that returned; ub: a jtag_recv has moved its
               \* cursor out of its array; nullStore: a byte was stored
               \* through jtag_buf while it was NULL

(***************************************************************************)
(* The device behind the TAP: in Shift-DR it presents, least significant   *)
(* bit first, the bytes DevByte(0), DevByte(1), ...                        *)
(***************************************************************************)
\* the four bytes of an IDCODE register that passes the test of line 710
\* (0x04008093), least significant first
IdcodeBytes == <<147, 128, 0, 4>>

\* a seed from 256 on stands for a device whose register starts with them
DevByte(j) ==
    IF dev >= 256 /\ j < 4 THEN IdcodeBytes[j + 1] ELSE (dev + 59 * j) % 256

DevBit(k) == Bit(DevByte(k \div 8), k % 8)

\* TDO as sampled on an edge clocked from TAP state h.tap
TdoAt(h) == IF h.tap = "ShiftDR" THEN DevBit(h.drPos) ELSE 1

(***************************************************************************)
(* The bridge (MPSSE engine).  hw is a record:                             *)
(*   tap    TAP state            tms, tdi  levels of the TMS and TDI pins  *)
(*   inq    bytes written to the bridge and not yet a complete command     *)
(*   out    reply bytes produced and not yet read by the host              *)
(*   nrep   bit-mode replies produced so far                               *)
(*   drPos  shift edges since the last Capture-DR                          *)
(*   drTdi, drRem  TDI on each edge clocked in Shift-DR since the last     *)
(*          Capture-DR (the current data-register scan): drTdi packs the   *)
(*          edges 8 to a byte, first edge in bit 0, drRem holds the edges  *)
(*          after the last full byte                                       *)
(*   drOnes the edges of that scan (counted from 1) on which TMS was 1     *)
(*   irScans  one entry per instruction-register scan (per Capture-IR):    *)
(*          TDI on each edge clocked in Shift-IR during that scan          *)
(*   spin   clock-only edges clocked, idleSpin those clocked in Idle       *)
(*   writes ftdi_write_data calls so far, wret what the last one returned  *)
(*   made   reply bytes the bridge has produced so far                     *)
(*   stray  data shift commands clocked with the TAP not held in Shift-IR  *)
(*          or Shift-DR                                                    *)
(*   carried  unread reply bytes and unsent command bytes left over from   *)
(*          jtag_mpsse_sync and the test transfer when main reached line   *)
(*          698                                                            *)
(***************************************************************************)
\* the byte made of bits 8j+1 .. 8j+8 of a bit sequence, the first in bit 0
\* (the reply byte of a byte-mode read)
PackByte(cap, j) ==
    cap[8*j + 1] + 2 * cap[8*j + 2] + 4 * cap[8*j + 3] + 8 * cap[8*j + 4]
      + 16 * cap[8*j + 5] + 32 * cap[8*j + 6] + 64 * cap[8*j + 7]
      + 128 * cap[8*j + 8]

\* one TCK edge with the given TMS and TDI levels
Edge(h, tms, tdi) ==
    [h EXCEPT
       !.tap = TapNext(h.tap, tms),
       !.tms = tms,
       !.tdi = tdi,
       !.drPos = IF TapNext(h.tap, tms) = "CaptureDR" THEN 0
                 ELSE IF h.tap = "ShiftDR" THEN h.drPos + 1 ELSE h.drPos,
       !.drTdi = IF TapNext(h.tap, tms) = "CaptureDR" THEN <<>>
                 ELSE IF h.tap = "ShiftDR" /\ Len(h.drRem) = 7
                   THEN Append(h.drTdi, PackByte(Append(h.drRem, tdi), 0))
                 ELSE h.drTdi,
       !.drRem = IF TapNext(h.tap, tms) = "CaptureDR" THEN <<>>
                 ELSE IF h.tap = "ShiftDR"
                   THEN (IF Len(h.drRem) = 7 THEN <<>> ELSE Append(h.drRem, tdi))
                 ELSE h.drRem,
       !.drOnes = IF TapNext(h.tap, tms) = "CaptureDR" THEN <<>>
                  ELSE IF h.tap = "ShiftDR" /\ tms = 1
                    THEN Append(h.drOnes, h.drPos + 1)
                  ELSE h.drOnes,
       !.irScans = IF TapNext(h.tap, tms) = "CaptureIR" THEN Append(h.irScans, <<>>)
                   ELSE IF h.tap = "ShiftIR" /\ Len(h.irScans) > 0
                     THEN [h.irScans EXCEPT ![Len(h.irScans)] = Append(@, tdi)]
                   ELSE h.irScans]

\* the edges first..Len(tdis) with TMS held, the TAP in a state it stays in
ClockStable(h, tdis, first) ==
    LET K    == Len(tdis) - first + 1
        rest == SubSeq(tdis, first, Len(tdis))
        all  == h.drRem \o rest
        nb   == Len(all) \div 8
    IN  [h   |-> [h EXCEPT
                    !.tdi = IF K > 0 THEN tdis[Len(tdis)] ELSE h.tdi,
                    !.drPos = IF h.tap = "ShiftDR" THEN h.drPos + K ELSE h.drPos,
                    !.drTdi = IF h.tap = "ShiftDR"
                                THEN h.drTdi \o [j \in 1..nb |-> PackByte(all, j - 1)]
                                ELSE h.drTdi,
                    !.drRem = IF h.tap = "ShiftDR"
                                THEN SubSeq(all, 8 * nb + 1, Len(all))
                                ELSE h.drRem,
                    !.irScans = IF h.tap = "ShiftIR" /\ Len(h.irScans) > 0
                                  THEN [h.irScans EXCEPT ![Len(h.irScans)] = @ \o rest]
                                  ELSE h.irScans],
         cap |-> IF h.tap = "ShiftDR"
                   THEN [i \in 1..K |-> DevBit(h.drPos + i - 1)]
                   ELSE [i \in 1..K |-> 1]]

\* a data or clock-only command: Len(tdis) edges with TMS held at its level;
\* returns the bridge after them and the TDO level sampled on each
RECURSIVE ClockHeld(_, _, _, _)
ClockHeld(h, tdis, i, cap) ==
    IF i > Len(tdis) THEN [h |-> h, cap |-> cap]
    ELSE IF TapStable(h.tap, h.tms)
      THEN LET r == ClockStable(h, tdis, i)
           IN  [h |-> r.h, cap |-> cap \o r.cap]
      ELSE ClockHeld(Edge(h, h.tms, tdis[i]), tdis, i + 1, Append(cap, TdoAt(h)))

\* a TMS command: edge i drives TMS with tmss[i] and TDI with the level tdi
RECURSIVE ClockTms(_, _, _, _, _)
ClockTms(h, tmss, tdi, i, cap) ==
    IF i > Len(tmss) THEN [h |-> h, cap |-> cap]
    ELSE ClockTms(Edge(h, tmss[i], tdi), tmss, tdi, i + 1, Append(cap, TdoAt(h)))

\* reply byte of a bit-mode read: each sampled bit enters at bit 7 and moves
\* the register right, so K bits end up in the top K bits above old content
RECURSIVE ShiftIn(_, _, _)
ShiftIn(reg, cap, i) ==
    IF i > Len(cap) THEN reg
    ELSE ShiftIn(Shr(reg, 1) + 128 * cap[i], cap, i + 1)

StaleAt(k) == stale[(k % Len(stale)) + 1]

HasFlag(op, f) == (op \div f) % 2 = 1

\* number of bytes of the command that starts h.inq, 0 when it is incomplete
CmdLen(q) ==
    IF Len(q) = 0 THEN 0
    ELSE LET op == q[1]
             need ==
               IF op < 128
                 THEN IF HasFlag(op, MPSSE_WRITE_TMS) THEN 3
                      ELSE IF HasFlag(op, MPSSE_BITMODE)
                        THEN 2 + (IF HasFlag(op, MPSSE_DO_WRITE) THEN 1 ELSE 0)
                      ELSE IF Len(q) < 3 THEN 3
                      ELSE 3 + (IF HasFlag(op, MPSSE_DO_WRITE)
                                  THEN q[2] + 256 * q[3] + 1 ELSE 0)
                 ELSE IF op \in {128, 130, 134, DATA_CLK_BYTES} THEN 3
                 ELSE IF op = DATA_CLK_BITS THEN 2
                 ELSE 1
         IN  IF Len(q) >= need THEN need ELSE 0

\* 1 when a data shift command would start with the TAP not held in a shift
\* state
Stray(h) == IF h.tap \in {"ShiftIR", "ShiftDR"} /\ h.tms = 0 THEN 0 ELSE 1

\* the bridge executes the complete command c
Exec(h, c) ==
    LET op == c[1] IN
    IF op < 128 /\ HasFlag(op, MPSSE_WRITE_TMS) THEN
        LET r == ClockTms(h, [i \in 1..((c[2] % 8) + 1) |-> Bit(c[3], i - 1)],
                          Bit(c[3], 7), 1, <<>>)
        IN  IF HasFlag(op, MPSSE_DO_READ)
              THEN [r.h EXCEPT
                      !.out = @ \o << ShiftIn(StaleAt(h.nrep), r.cap, 1) >>,
                      !.nrep = @ + 1]
              ELSE r.h
    ELSE IF op < 128 /\ HasFlag(op, MPSSE_BITMODE) THEN
        LET K == (c[2] % 8) + 1
            r == ClockHeld(h, [i \in 1..K |->
                                 IF HasFlag(op, MPSSE_DO_WRITE)
                                   THEN Bit(c[3], i - 1) ELSE h.tdi],
                           1, <<>>)
        IN  IF HasFlag(op, MPSSE_DO_READ)
              THEN [r.h EXCEPT
                      !.out = @ \o << ShiftIn(StaleAt(h.nrep), r.cap, 1) >>,
                      !.nrep = @ + 1,
                      !.stray = @ + Stray(h)]
              ELSE [r.h EXCEPT !.stray = @ + Stray(h)]
    ELSE IF op < 128 THEN
        LET n == c[2] + 256 * c[3] + 1
            r == ClockHeld(h, [i \in 1..(8 * n) |->
                                 IF HasFlag(op, MPSSE_DO_WRITE)
                                   THEN Bit(c[4 + ((i - 1) \div 8)], (i - 1) % 8)
                                   ELSE h.tdi],
                           1, <<>>)
        IN  IF HasFlag(op, MPSSE_DO_READ)
              THEN [r.h EXCEPT
                      !.out = @ \o [j \in 1..n |-> PackByte(r.cap, j - 1)],
                      !.stray = @ + Stray(h)]
              ELSE [r.h EXCEPT !.stray = @ + Stray(h)]
    ELSE IF op \in {DATA_CLK_BITS, DATA_CLK_BYTES} THEN
        LET K == IF op = DATA_CLK_BITS THEN (c[2] % 8) + 1
                 ELSE 8 * (c[2] + 256 * c[3] + 1)
            r == ClockHeld(h, [i \in 1..K |-> h.tdi], 1, <<>>)
        IN  [r.h EXCEPT
               !.spin = @ + K,
               !.idleSpin = @ + (IF h.tap = "Idle" /\ h.tms = 0 THEN K ELSE 0)]
    ELSE IF op = 128 THEN
        \* SET_BITS_LOW: TMS is ADBUS3, TDI is ADBUS1
        [h EXCEPT !.tms = Bit(c[2], 3), !.tdi = Bit(c[2], 1)]
    ELSE IF op \in {130, 134, 135, 138, 139, 140, 141, 150, 151} THEN
        h
    ELSE
        \* not a command: the bridge answers 0xFA and the byte
        [h EXCEPT !.out = @ \o <<250, op>>]

\* the bridge executes the first command of its input queue, if it is complete
MpsseStep(h) ==
    LET k == CmdLen(h.inq)
    IN  IF k = 0 THEN h
        ELSE Exec([h EXCEPT !.inq = SubSeq(h.inq, k + 1, Len(h.inq))],
                  SubSeq(h.inq, 1, k))

\* the bridge executes up to n commands of its input queue, in order: the
\* first half of them, then the rest
RECURSIVE MpsseRunN(_, _)
MpsseRunN(h, n) ==
    IF CmdLen(h.inq) = 0 THEN h
    ELSE IF n <= 1 THEN MpsseStep(h)
    ELSE MpsseRunN(MpsseRunN(h, n \div 2), n - n \div 2)

\* the bridge executes every complete command of its input queue; a queue of
\* k bytes holds at most k of them
MpsseRun(h) == MpsseRunN(h, Len(h.inq))

\* ftdi_write_data accepted the first l bytes of jtag_buf
MpsseWrite(h, bytes) ==
    LET r == MpsseRun([h EXCEPT !.inq = @ \o bytes])
    IN  [r EXCEPT !.made = @ + Len(r.out) - Len(h.out)]


vars == <<pc, jtag_buf, hw, dev, stale, xport, irLog, wfail, dr, tdo, rbuf, rv,
          ret, idcode, unit, mn>>

(***************************************************************************)
(* Inputs of the model                                                     *)
(***************************************************************************)
\* a seed for a device whose IDCODE passes the test of line 710
XilinxDev == 256 + 147

\* the test of line 710
IdcodeOk(v) == v % 2097152 = 32915

\* a device main goes on with, and one it turns down
DevSeeds == {XilinxDev, 147}

\* the invalid command of jtag_mpsse_sync
jtag_mpsse_sync_bytes == <<170>>

\* what jtag_mpsse_sync can leave in jtag_buf when it returns 0: its jtag_send
\* drops the result of a write that did not take the byte (line 586)
StartBufs == IF xport = "ok" THEN {<<>>} ELSE {<<>>, jtag_mpsse_sync_bytes}

\* the two bytes the bridge answers to the invalid command
BadCommandReply == <<250, 170>>

\* the replies still queued when jtag_mpsse_sync has returned 0.  It read
\* fa aa: its own reply, nothing staying behind, or a reply that was queued
\* before it was called, and then its own reply stays behind when its write
\* took the byte, and its byte stays in jtag_buf (buf) when it did not
SyncLeft(buf) == IF buf = <<>> THEN {<<>>, BadCommandReply} ELSE {<<>>}

\* whether a jtag_recv before line 698 has already moved its cursor out of its
\* array
StartUb == IF xport = "ok" THEN {FALSE} ELSE BOOLEAN

\* the replies that can be unread at line 698.  The test byte of line 691 is
\* written or not (a write returning 0 passes the test of line 692), and
\* jtag_recv(c, 2) of line 694, whose result is dropped, has read k of the
\* bytes queued: k = 2 when every call completes, any k <= 2 otherwise, and
\* more than 2 only after reads of -1 have raised its count (ub)
StartReplies(buf, ub) ==
    IF xport = "ok"
      THEN SyncLeft(buf)
      ELSE UNION { { SubSeq(r \o t, k + 1, Len(r \o t)) :
                       k \in 0..(IF ub THEN Len(r \o t)
                                        ELSE Min(Len(r \o t), 2)) } :
                   r \in SyncLeft(buf), t \in {<<>>, BadCommandReply} }

StaleSeqs == {<<90, 255>>}

TdiSeeds == {201}

Instrs == {JTAG_INSTR_CFG_IN, JTAG_INSTR_JSTART}

\* ceil(n / 8)
ByteLen(n) == (n + 7) \div 8

\* bit lengths that need more than one chunk, or exactly one full chunk
BigLens == {8 * JTAG_CHUNK_SIZE + 8, 8 * JTAG_CHUNK_SIZE + 13}

\* the bit lengths a session asks for: the small ones in every session, the
\* big ones where main has them, after one instruction write, and with a
\* transport that moves every byte
DrLens ==
    (1..MaxBits) \cup (IF xport = "ok" /\ Len(irLog) = 2 THEN BigLens ELSE {})

(***************************************************************************)
(* The transport: what ftdi_write_data and ftdi_read_data may return       *)
(***************************************************************************)
\* ftdi_write_data(jtag_buf, size): bytes accepted, or -1
WriteRets(size) ==
    IF xport = "ok" THEN {size}
    ELSE {-1, size} \cup {k \in 0..size : k <= MaxPartial}

\* ftdi_read_data(buf, size) with avail reply bytes pending: bytes read, or -1
ReadRets(size, avail) ==
    IF xport = "ok" THEN {Min(size, avail)}
    ELSE {-1, Min(size, avail)} \cup {k \in 0..Min(size, avail) : k <= MaxPartial}

(***************************************************************************)
(* State at line 698: jtag_init and jtag_mpsse_sync returned 0 and the     *)
(* test transfer of lines 689-694 is over                                  *)
(***************************************************************************)
HwInit(tap) ==
    [tap |-> tap, tms |-> 1, tdi |-> 0, inq |-> <<>>, out |-> <<>>, nrep |-> 0,
     drPos |-> 0, drTdi |-> <<>>, drRem |-> <<>>, drOnes |-> <<>>,
     irScans |-> <<>>,
     spin |-> 0, idleSpin |-> 0,
     writes |-> 0, wret |-> 0, stray |-> 0, made |-> 0, carried |-> 0]

DrNone ==
    [tdi |-> NULL, rd |-> FALSE, n |-> 0, bytes_remaining |-> 0,
     bits_remaining |-> 0, chunk_length |-> 0, tdi_i |-> 0, tdo_i |-> 0,
     caller |-> "none", enc |-> 0, snt |-> 0, rcv |-> 0,
     made0 |-> 0, asked0 |-> 0]

RvNone ==
    [n |-> 0, n0 |-> 0, timeout |-> 0, cur |-> 0, base |-> 0, tgt |-> "none",
     reads |-> 0, got |-> 0, done |-> TRUE, oob |-> FALSE, asked |-> 0,
     ub |-> FALSE]

UnitNone == [op |-> "none", from |-> "none"]

MainNone == [pc |-> "none", jtag_buf_i |-> 0, i |-> 0, flength |-> 0,
             bytes_remaining |-> 0, ret |-> 0, failed |-> FALSE,
             freed |-> FALSE, closes |-> 0, nullStore |-> FALSE, ub |-> FALSE]

Init ==
    /\ pc = "start"
    /\ xport \in {"ok", "any"}
    /\ jtag_buf \in StartBufs
    /\ \E b \in StartUb :
         /\ rv = [RvNone EXCEPT !.ub = b]
         /\ \E t \in TapStates, q \in StartReplies(jtag_buf, b) :
              hw = [HwInit(t) EXCEPT !.out = q,
                                     !.carried = Len(q) + Len(jtag_buf)]
    /\ dev \in DevSeeds
    /\ stale \in StaleSeqs
    /\ irLog = <<>>
    /\ wfail = FALSE
    /\ dr = DrNone
    /\ tdo = <<>>
    /\ rbuf = <<-1, -1>>
    /\ ret = 0
    /\ idcode = 0
    /\ unit = UnitNone
    /\ mn = MainNone

(***************************************************************************)
(* jtag_send and jtag_recv                                                 *)
(***************************************************************************)
\* jtag_send when ftdi_write_data returns l: TRUE when it returns 0
SendOk(l) == Len(jtag_buf) >= 1 /\ l = Len(jtag_buf)

\* a variant that empties the buffer whatever the transport accepted
jtag_send_reset(l) ==
    IF Len(jtag_buf) < 1
      THEN UNCHANGED <<jtag_buf, hw, wfail>>
      ELSE /\ hw' = [(IF l > 0 THEN MpsseWrite(hw, SubSeq(jtag_buf, 1, l)) ELSE hw)
                       EXCEPT !.writes = @ + 1, !.wret = l]
           /\ jtag_buf' = <<>>
           /\ wfail' = (wfail \/ l # Len(jtag_buf))

\* the effect of jtag_send on the buffer, the bridge and the failure record
jtag_send(l) ==
    IF Len(jtag_buf) < 1
      THEN UNCHANGED <<jtag_buf, hw, wfail>>
      ELSE /\ hw' = [(IF l > 0 THEN MpsseWrite(hw, SubSeq(jtag_buf, 1, l)) ELSE hw)
                       EXCEPT !.writes = @ + 1, !.wret = l]
           /\ jtag_buf' = IF l = Len(jtag_buf) THEN <<>> ELSE jtag_buf
           /\ wfail' = (wfail \/ l # Len(jtag_buf))

\* entry of jtag_recv(rbuf, n): tgt names the array rbuf points into, base
\* the index rbuf points at
RecvStart(tgt, base, n) ==
    [n |-> n, n0 |-> n, timeout |-> JTAG_RECV_ATTEMPTS, cur |-> 0, base |-> base,
     tgt |-> tgt, reads |-> 0, got |-> 0, done |-> ~(n > 0), oob |-> FALSE,
     asked |-> rv.asked + (IF n > 0 THEN n ELSE 0), ub |-> rv.ub]

\* the array a after r bytes of data were stored from index at (0-based) on;
\* stores outside the array are not kept
Store(a, at, data, r) ==
    [j \in 1..Len(a) |->
       IF j - 1 >= at /\ j - 1 < at + r THEN data[j - at] ELSE a[j]]

\* a variant without the attempt counter
RecvBreakNever(timeout) == FALSE

\* line 168: if(timeout-- <= 0) break;
RecvBreak(timeout) == timeout <= 0

\* one iteration of the while loop of jtag_recv, ftdi_read_data returning r
RecvIter(r) ==
    LET at   == rv.base + rv.cur
        data == IF r > 0 THEN SubSeq(hw.out, 1, r) ELSE <<>>
        size == IF rv.tgt = "tdo" THEN Len(tdo) ELSE Len(rbuf)
    IN  /\ hw' = [hw EXCEPT !.out = IF r > 0 THEN SubSeq(@, r + 1, Len(@)) ELSE @]
        /\ tdo' = IF rv.tgt = "tdo" /\ r > 0 THEN Store(tdo, at, data, r) ELSE tdo
        /\ rbuf' = IF rv.tgt = "rbuf" /\ r > 0 THEN Store(rbuf, at, data, r) ELSE rbuf
        /\ rv' = [rv EXCEPT
                    !.cur = IF rv.tgt # "null" THEN @ + r ELSE @,
                    !.n = @ - r,
                    !.timeout = @ - 1,
                    !.reads = @ + 1,
                    !.got = @ + (IF r > 0 THEN r ELSE 0),
                    !.oob = @ \/ (rv.tgt # "null"
                                    /\ (at + r < 0 \/ at < 0 \/ at + r > size)),
                    !.ub = @ \/ (rv.tgt # "null"
                                   /\ (at + r < 0 \/ at < 0 \/ at + r > size)),
                    !.done = RecvBreak(rv.timeout) \/ ~(rv.n - r > 0)]

RecvPcs == {"dr_recv", "dr_recv_last", "dr_recv_bits", "sync_recv"}

RecvRead ==
    /\ pc \in RecvPcs
    /\ ~rv.done
    /\ \E r \in ReadRets(IF rv.tgt # "null" THEN rv.n ELSE 32, Len(hw.out)) :
         RecvIter(r)
    /\ UNCHANGED <<unit, mn, pc, jtag_buf, dev, stale, xport, irLog, wfail, dr, ret, idcode>>

\* lines 160-166 after a read that returned -1: the cursor has left the
\* caller's array and the next read may store before it, over the callers'
\* stack frames.  The behaviour is undefined: the program goes on as if
\* nothing had happened, or it is killed, in jtag_recv or at any later step.
Killed ==
    /\ rv.ub
    /\ pc # "crash"
    /\ pc' = "crash"
    /\ UNCHANGED <<unit, mn, jtag_buf, hw, dev, stale, xport, irLog, wfail, dr, tdo, rbuf, rv, ret, idcode>>

(***************************************************************************)
(* main, lines 698-702: jtag_to_tlr(); jtag_tlr_to_rti();                  *)
(***************************************************************************)
Startup ==
    /\ pc = "start"
    /\ jtag_buf' = jtag_buf \o jtag_to_tlr \o jtag_tlr_to_rti
    /\ pc' = "probe"
    /\ UNCHANGED <<unit, mn, hw, dev, stale, xport, irLog, wfail, dr, tdo, rbuf, rv, ret, idcode>>

\* jtag_ir_write(instruction): appends, never flushes; main gets here only
\* with an idcode that passes the test of line 710
IrWrite ==
    /\ pc = "idle"
    /\ IdcodeOk(idcode)
    /\ Len(irLog) <= MaxOps
    /\ \E ins \in Instrs :
         /\ jtag_buf' = jtag_buf \o jtag_ir_write(ins)
         /\ irLog' = Append(irLog, ins)
    /\ UNCHANGED <<unit, mn, pc, hw, dev, stale, xport, wfail, dr, tdo, rbuf, rv, ret, idcode>>

(***************************************************************************)
(* jtag_dr_op                                                              *)
(***************************************************************************)
\* a / b as C divides two ints, b > 0: the quotient is cut toward zero
CDiv(a, b) == IF a >= 0 THEN a \div b ELSE -((-a) \div b)

\* line 467
WholeBytes(n) == CDiv(n - 1, 8)

\* line 470
TailBits(n) == n - (WholeBytes(n) * 8)

\* line 479
ChunkLen(bytes_remaining) ==
    IF bytes_remaining > JTAG_CHUNK_SIZE THEN JTAG_CHUNK_SIZE ELSE bytes_remaining

\* a variant that encodes every chunk before the first flush
MoreChunksNever(bytes_remaining) == FALSE

\* line 495: another chunk follows, so this one is sent and read back first
MoreChunks(bytes_remaining) == bytes_remaining > 0

\* lines 460-474, after pre (the bytes the caller appended before the call)
DrBegin(pre, tdi, rd, n, caller) ==
    /\ jtag_buf' = jtag_buf \o pre \o jtag_rti_to_shift_dr
    /\ dr' = [tdi |-> tdi, rd |-> rd, n |-> n,
              bytes_remaining |-> WholeBytes(n), bits_remaining |-> TailBits(n),
              chunk_length |-> 0, tdi_i |-> 0, tdo_i |-> 0, caller |-> caller,
              enc |-> 0, snt |-> 0, rcv |-> 0,
              made0 |-> hw.made, asked0 |-> rv.asked]
    /\ tdo' = IF rd THEN [j \in 1..ByteLen(n) |-> -1] ELSE <<>>
    /\ pc' = IF WholeBytes(n) > 0 THEN "dr_chunk" ELSE "dr_tail"

\* jtag_dr_op returns v; jtag_get_idcode assembles *idcode from buf, and the
\* session goes on after it as main does (line 704)
DrReturn(v, buf) ==
    /\ pc' = IF v = 0 /\ dr.caller = "idcode" THEN "idle"
             ELSE IF dr.caller = "main"
               THEN (IF v = 0 THEN "jstart" ELSE "main_exit")
             ELSE "done"
    /\ ret' = v
    /\ idcode' = IF v = 0 /\ dr.caller = "idcode" THEN IdcodeOf(buf) ELSE idcode

\* a variant without the test of line 460
jtag_dr_op_unchecked(tdi, rd, n) ==
    /\ DrBegin(<<>>, tdi, rd, n, "dr_op")
    /\ UNCHANGED ret

\* jtag_dr_op(tdi, tdo, n) up to its chunk loop; rd: tdo is not NULL
jtag_dr_op(tdi, rd, n) ==
    IF tdi = NULL /\ ~rd
      THEN /\ pc' = "done"
           /\ ret' = 1
           /\ UNCHANGED <<jtag_buf, dr, tdo>>
      ELSE /\ DrBegin(<<>>, tdi, rd, n, "dr_op")
           /\ UNCHANGED ret

\* jtag_dr_op from main, after the test of line 710
CallDrOp ==
    /\ pc = "idle"
    /\ IdcodeOk(idcode)
    /\ \E n \in DrLens, rd \in BOOLEAN :
         \E tdi \in {NULL} \cup {SrcPtr(s) : s \in TdiSeeds} :
           jtag_dr_op(tdi, rd, n)
    /\ UNCHANGED <<unit, mn, hw, dev, stale, xport, irLog, wfail, rbuf, rv, idcode>>

\* jtag_get_idcode: jtag_ir_write(JTAG_INSTR_IDCODE); jtag_dr_read(buf, 32)
CallGetIdcode ==
    /\ pc = "probe"
    /\ DrBegin(jtag_ir_write(JTAG_INSTR_IDCODE), NULL, TRUE, 32, "idcode")
    /\ irLog' = Append(irLog, JTAG_INSTR_IDCODE)
    /\ UNCHANGED <<unit, mn, hw, dev, stale, xport, wfail, rbuf, rv, ret, idcode>>

\* lines 479-495: encode one chunk
DrChunk ==
    /\ pc = "dr_chunk"
    /\ LET cl  == ChunkLen(dr.bytes_remaining)
       IN  /\ jtag_buf' = jtag_buf
                 \o jtag_shift_bytes(PtrAdd(dr.tdi, dr.tdi_i), cl, dr.rd)
           /\ dr' = [dr EXCEPT
                       !.chunk_length = cl,
                       !.tdi_i = IF dr.tdi # NULL THEN @ + cl ELSE @,
                       !.bytes_remaining = @ - cl,
                       !.enc = @ + 1]
           /\ pc' = IF MoreChunks(dr.bytes_remaining - cl) THEN "dr_send"
                    ELSE IF dr.bytes_remaining - cl > 0 THEN "dr_chunk"
                    ELSE "dr_tail"
    /\ UNCHANGED <<unit, mn, hw, dev, stale, xport, irLog, wfail, tdo, rbuf, rv, ret, idcode>>

\* lines 497-505: flush the chunk, then start to read it back
DrSend ==
    /\ pc = "dr_send"
    /\ \E l \in WriteRets(Len(jtag_buf)) :
         /\ jtag_send(l)
         /\ IF ~SendOk(l)
              THEN DrReturn(1, tdo) /\ UNCHANGED <<dr, rv>>
              ELSE /\ dr' = [dr EXCEPT !.snt = @ + 1]
                   /\ UNCHANGED <<ret, idcode>>
                   /\ IF dr.rd
                        THEN /\ rv' = RecvStart("tdo", dr.tdo_i, dr.chunk_length)
                             /\ pc' = "dr_recv"
                        ELSE /\ pc' = "dr_chunk"
                             /\ UNCHANGED rv
    /\ UNCHANGED <<unit, mn, dev, stale, xport, irLog, tdo, rbuf>>

\* jtag_recv has returned: its arguments and locals are gone
RecvEnd == [RvNone EXCEPT !.asked = rv.asked, !.ub = rv.ub]

\* lines 505-510: jtag_recv returned
DrRecvDone ==
    /\ pc = "dr_recv"
    /\ rv.done
    /\ IF rv.n # 0
         THEN DrReturn(1, tdo) /\ UNCHANGED dr
         ELSE /\ dr' = [dr EXCEPT !.tdo_i = @ + dr.chunk_length, !.rcv = @ + 1]
              /\ pc' = "dr_chunk"
              /\ UNCHANGED <<ret, idcode>>
    /\ rv' = RecvEnd
    /\ UNCHANGED <<unit, mn, jtag_buf, hw, dev, stale, xport, irLog, wfail, tdo, rbuf>>

\* lines 516-525: the tail bits and the move back to run-test/idle
DrTail ==
    /\ pc = "dr_tail"
    /\ jtag_buf' = jtag_buf
         \o (IF dr.bits_remaining > 0
               THEN jtag_shift_bits(PtrAdd(dr.tdi, dr.tdi_i), dr.bits_remaining, dr.rd)
               ELSE <<>>)
         \o jtag_exit1_dr_to_rti
    /\ pc' = "dr_send_last"
    /\ UNCHANGED <<unit, mn, hw, dev, stale, xport, irLog, wfail, dr, tdo, rbuf, rv, ret, idcode>>

\* line 431: the number of reply bytes jtag_recv_bits asks jtag_recv for
RecvBitsCount(n) == IF n > 1 THEN 2 ELSE 1

\* lines 548-556 up to the first read of jtag_recv_bits; the chunk bytes, if
\* any, are in place and the output index is at
DrBits(at) ==
    IF dr.bits_remaining > 0
      THEN IF dr.bits_remaining < 1 \/ dr.bits_remaining > 8
             THEN DrReturn(1, tdo) /\ UNCHANGED <<rv, rbuf>>
             ELSE /\ rv' = RecvStart("rbuf", 0, RecvBitsCount(dr.bits_remaining))
                  /\ rbuf' = <<-1, -1>>
                  /\ pc' = "dr_recv_bits"
                  /\ UNCHANGED <<ret, idcode>>
      ELSE DrReturn(0, tdo) /\ UNCHANGED <<rv, rbuf>>

\* lines 528-548: the last flush
DrSendLast ==
    /\ pc = "dr_send_last"
    /\ \E l \in WriteRets(Len(jtag_buf)) :
         /\ jtag_send(l)
         /\ IF ~SendOk(l)
              THEN DrReturn(1, tdo) /\ UNCHANGED <<dr, rv, rbuf>>
              ELSE /\ dr' = [dr EXCEPT !.snt = @ + (IF dr.chunk_length > 0 THEN 1 ELSE 0)]
                   /\ IF ~dr.rd
                        THEN DrReturn(0, tdo) /\ UNCHANGED <<rv, rbuf>>
                        ELSE IF dr.chunk_length > 0
                          THEN /\ rv' = RecvStart("tdo", dr.tdo_i, dr.chunk_length)
                               /\ pc' = "dr_recv_last"
                               /\ UNCHANGED <<rbuf, ret, idcode>>
                          ELSE DrBits(dr.tdo_i)
    /\ UNCHANGED <<unit, mn, dev, stale, xport, irLog, tdo>>

\* lines 540-548: the last chunk was read back
DrRecvLastDone ==
    /\ pc = "dr_recv_last"
    /\ rv.done
    /\ IF rv.n # 0
         THEN DrReturn(1, tdo) /\ rv' = RecvEnd /\ UNCHANGED <<dr, rbuf>>
         ELSE /\ dr' = [dr EXCEPT !.tdo_i = @ + dr.chunk_length, !.rcv = @ + 1]
              /\ DrBits(dr.tdo_i + dr.chunk_length)
    /\ UNCHANGED <<unit, mn, jtag_buf, hw, dev, stale, xport, irLog, wfail, tdo>>

\* jtag_recv_bits lines 431-449 after jtag_recv returned, and lines 550-559
DrRecvBitsDone ==
    /\ pc = "dr_recv_bits"
    /\ rv.done
    /\ IF rv.n # 0
         THEN DrReturn(1, tdo) /\ UNCHANGED <<dr, tdo>>
         ELSE LET buf == [tdo EXCEPT ![dr.tdo_i + 1] =
                                        RecvBitsDecode(rbuf, dr.bits_remaining)]
              IN  /\ tdo' = buf
                  /\ dr' = [dr EXCEPT !.tdo_i = @ + 1]
                  /\ DrReturn(0, buf)
    /\ rv' = RecvEnd
    /\ UNCHANGED <<unit, mn, jtag_buf, hw, dev, stale, xport, irLog, wfail, rbuf>>

Next ==
    \/ Startup
    \/ IrWrite
    \/ CallDrOp
    \/ CallGetIdcode
    \/ DrChunk
    \/ DrSend
    \/ DrRecvDone
    \/ DrTail
    \/ DrSendLast
    \/ DrRecvLastDone
    \/ DrRecvBitsDone
    \/ RecvRead
    \/ Killed

Spec == Init /\ [][Next]_vars

(***************************************************************************)
(* Properties of the transfer engine, checked under Spec                   *)
(***************************************************************************)
\* a jtag_dr_op (or jtag_get_idcode) has returned 0
OpDone == pc \in {"idle", "done"} /\ dr.caller # "none" /\ ret = 0

\* the byte counts of the byte-mode shift commands held in the buffer q
IsByteCmd(op) ==
    op < 128 /\ ~HasFlag(op, MPSSE_WRITE_TMS) /\ ~HasFlag(op, MPSSE_BITMODE)

RECURSIVE ByteCmdLens(_)
ByteCmdLens(q) ==
    LET k == CmdLen(q)
    IN  IF k = 0 THEN <<>>
        ELSE (IF IsByteCmd(q[1]) THEN << q[2] + 256 * q[3] + 1 >> ELSE <<>>)
               \o ByteCmdLens(SubSeq(q, k + 1, Len(q)))

\* C1: a successful jtag_dr_op of n bits clocks exactly n edges in Shift-DR,
\* TMS is 0 on the first n-1 of them and 1 on the n-th (the last data bit and
\* the exit to Exit1-DR are the same edge), and the TAP is back in Idle.
C1_ExitOnLastBit ==
    OpDone =>
      /\ hw.drPos = dr.n
      /\ hw.drOnes = << dr.n >>
      /\ hw.tap = "Idle"

C1_Witness ==
    /\ OpDone
    /\ dr.caller = "dr_op"
    /\ dr.n > 8 * JTAG_CHUNK_SIZE
    /\ hw.drPos = dr.n

\* TDI on edge i (from 0) of the current data-register scan
DrTdiEdge(i) ==
    IF i < 8 * Len(hw.drTdi)
      THEN Bit(hw.drTdi[(i \div 8) + 1], i % 8)
      ELSE hw.drRem[i - 8 * Len(hw.drTdi) + 1]

\* the 6 bits of an instruction, in shift order
InstrBits(ins) == [i \in 1..6 |-> Bit(ins, i - 1)]

\* C2: the TDI levels on the edges of a write shift are the source bits in
\* order: bit (i mod 8) of byte (i div 8) for a data-register write, the 6
\* instruction bits for every instruction write the bridge has received.
C2_TdiIsSource ==
    /\ (OpDone /\ dr.tdi # NULL) =>
          /\ 8 * Len(hw.drTdi) + Len(hw.drRem) = dr.n
          /\ \A i \in 0..(dr.n - 1) :
                DrTdiEdge(i) = Bit(Mem(dr.tdi, i \div 8), i % 8)
    /\ (jtag_buf = <<>> /\ ~wfail) =>
          /\ Len(hw.irScans) = Len(irLog)
          /\ \A k \in 1..Len(irLog) : hw.irScans[k] = InstrBits(irLog[k])

C2_Witness ==
    /\ OpDone
    /\ dr.tdi # NULL
    /\ dr.n > 8 * JTAG_CHUNK_SIZE + 8
    /\ Len(irLog) = 2
    /\ jtag_buf = <<>>

\* C5: chunks hold at most JTAG_CHUNK_SIZE bytes; chunk k is flushed, and when
\* capturing read back, before chunk k+1 is encoded; so the buffer never holds
\* two byte-mode commands and at most one chunk plus the 2 tail bytes of
\* replies are pending.
C5_ChunkOrder ==
    /\ Len(ByteCmdLens(jtag_buf)) <= 1
    /\ \A k \in 1..Len(ByteCmdLens(jtag_buf)) :
          ByteCmdLens(jtag_buf)[k] <= JTAG_CHUNK_SIZE
    /\ Len(hw.out) <= JTAG_CHUNK_SIZE + 2
    /\ dr.enc <= dr.snt + 1
    /\ dr.rd => dr.enc <= dr.rcv + 1
    /\ pc = "dr_chunk" => (dr.snt = dr.enc /\ (dr.rd => dr.rcv = dr.enc))

C5_Witness ==
    /\ pc = "dr_tail"
    /\ dr.rd
    /\ dr.enc = 2
    /\ dr.rcv = 1
    /\ Len(ByteCmdLens(jtag_buf)) = 1

\* C7 as claimed: a successful capture stores ceil(n/8) bytes: the device's
\* bytes in order, the last one cut to the tail bits; jtag_get_idcode puts
\* buf[0] in the low byte and buf[3] in the high byte of *idcode.
C7_Captured ==
    /\ (OpDone /\ dr.rd) =>
          /\ Len(tdo) = ByteLen(dr.n)
          /\ dr.tdo_i = ByteLen(dr.n)
          /\ \A j \in 1..WholeBytes(dr.n) : tdo[j] = DevByte(j - 1)
          /\ tdo[WholeBytes(dr.n) + 1]
               = LowBits(DevByte(WholeBytes(dr.n)), TailBits(dr.n))
    /\ (OpDone /\ dr.caller = "idcode") =>
          \A k \in 0..3 : (idcode \div (256 ^ k)) % 256 = tdo[k + 1]

\* when nothing is left over from jtag_mpsse_sync and the test transfer the
\* capture is the device's, whatever the transport does afterwards
CapturedOnCleanStart == hw.carried = 0 => C7_Captured

\* C8 as claimed: once JTAG_RECV_ATTEMPTS reads of one jtag_recv have each
\* left bytes outstanding, jtag_recv reads no more and has stopped with bytes
\* outstanding (it returns nonzero, and so does jtag_dr_op).
C8_NoReadAfterAttempts ==
    /\ rv.reads <= JTAG_RECV_ATTEMPTS
    /\ (rv.reads = JTAG_RECV_ATTEMPTS /\ rv.n > 0) => rv.done

\* C9: jtag_recv makes a bounded number of reads, returns 0 only when at
\* least the n requested bytes were delivered, and returns nonzero when
\* fewer were.
C9_RecvTerminates ==
    /\ rv.reads <= JTAG_RECV_ATTEMPTS + 1
    /\ (rv.reads = JTAG_RECV_ATTEMPTS + 1) => rv.done
    /\ (rv.done /\ rv.n = 0) => rv.got >= rv.n0
    /\ (rv.done /\ rv.got < rv.n0) => rv.n # 0

C9_Witness ==
    /\ rv.done
    /\ rv.reads = JTAG_RECV_ATTEMPTS + 1
    /\ rv.n > 0

(***************************************************************************)
(* The TAP moves on their own: one move is appended and flushed from any   *)
(* of the 16 TAP states                                                    *)
(***************************************************************************)
TapOps ==
    {"jtag_to_tlr", "jtag_tlr_to_rti", "jtag_rti_to_shift_ir",
     "jtag_rti_to_shift_dr", "jtag_exit1_ir_to_rti", "jtag_exit1_dr_to_rti"}

\* the bytes the move op appends
TapOpBytes(op) ==
    CASE op = "jtag_to_tlr"          -> jtag_to_tlr
      [] op = "jtag_tlr_to_rti"      -> jtag_tlr_to_rti
      [] op = "jtag_rti_to_shift_ir" -> jtag_rti_to_shift_ir
      [] op = "jtag_rti_to_shift_dr" -> jtag_rti_to_shift_dr
      [] op = "jtag_exit1_ir_to_rti" -> jtag_exit1_ir_to_rti
      [] op = "jtag_exit1_dr_to_rti" -> jtag_exit1_dr_to_rti

InitTap ==
    /\ pc = "tap"
    /\ jtag_buf = <<>>
    /\ \E t \in TapStates : hw = HwInit(t)
    /\ dev \in DevSeeds
    /\ stale \in StaleSeqs
    /\ xport \in {"ok", "any"}
    /\ irLog = <<>>
    /\ wfail = FALSE
    /\ dr = DrNone
    /\ tdo = <<>>
    /\ rbuf = <<-1, -1>>
    /\ rv = RvNone
    /\ ret = 0
    /\ idcode = 0
    /\ unit = UnitNone
    /\ mn = MainNone

\* the move stores its three bytes at jtag_buf[jtag_buf_i]
TapCall ==
    /\ pc = "tap"
    /\ \E op \in TapOps :
         /\ jtag_buf' = jtag_buf \o TapOpBytes(op)
         /\ unit' = [op |-> op, from |-> hw.tap]
    /\ pc' = "tap_send"
    /\ UNCHANGED <<mn, hw, dev, stale, xport, irLog, wfail, dr, tdo, rbuf, rv, ret, idcode>>

\* jtag_send
TapSend ==
    /\ pc = "tap_send"
    /\ \E l \in WriteRets(Len(jtag_buf)) : jtag_send(l)
    /\ pc' = "tap_done"
    /\ UNCHANGED <<unit, mn, dev, stale, xport, irLog, dr, tdo, rbuf, rv, ret, idcode>>

NextTap ==
    \/ TapCall
    \/ TapSend

SpecTap == InitTap /\ [][NextTap]_vars

\* the state a move assumes the TAP is in, "any" when it assumes none
TapFrom(op) ==
    CASE op = "jtag_to_tlr"          -> "any"
      [] op = "jtag_tlr_to_rti"      -> "Reset"
      [] op = "jtag_rti_to_shift_ir" -> "Idle"
      [] op = "jtag_rti_to_shift_dr" -> "Idle"
      [] op = "jtag_exit1_ir_to_rti" -> "Exit1IR"
      [] op = "jtag_exit1_dr_to_rti" -> "Exit1DR"

\* the state a move is to leave the TAP in
TapTo(op) ==
    CASE op = "jtag_to_tlr"          -> "Reset"
      [] op = "jtag_tlr_to_rti"      -> "Idle"
      [] op = "jtag_rti_to_shift_ir" -> "ShiftIR"
      [] op = "jtag_rti_to_shift_dr" -> "ShiftDR"
      [] op = "jtag_exit1_ir_to_rti" -> "Idle"
      [] op = "jtag_exit1_dr_to_rti" -> "Idle"

\* the move op was flushed whole from the state it assumes
TapMoved(op) ==
    /\ pc = "tap_done"
    /\ ~wfail
    /\ unit.op = op
    /\ TapFrom(op) \in {"any", unit.from}

\* C3: every TAP move, clocked through the TAP graph from the state it
\* assumes, leaves the TAP in its target state; jtag_to_tlr does so from each
\* of the 16 states.
C3_TapMoves ==
    \A op \in TapOps : TapMoved(op) => hw.tap = TapTo(op)

C3_Witness ==
    /\ TapMoved("jtag_to_tlr")
    /\ unit.from = "ShiftDR"
    /\ hw.tap = "Reset"

\* the TMS levels of the TMS command c in the order they are clocked
TmsBits(c) == [i \in 1..(c[2] + 1) |-> Bit(c[3], i - 1)]

\* the move just appended is one TMS command and nothing else
OneTmsCmd ==
    /\ Len(jtag_buf) = 3
    /\ jtag_buf[1] = TmsCmd
    /\ CmdLen(jtag_buf) = 3

\* the table of TMS sequences as the specification gives it
TableBits(op) ==
    CASE op = "jtag_to_tlr"          -> <<1, 1, 1, 1, 1>>
      [] op = "jtag_tlr_to_rti"      -> <<0>>
      [] op = "jtag_rti_to_shift_ir" -> <<1, 1, 0, 0>>
      [] op = "jtag_rti_to_shift_dr" -> <<1, 0, 0>>
      [] op = "jtag_exit1_ir_to_rti" -> <<0, 1>>
      [] op = "jtag_exit1_dr_to_rti" -> <<0, 1>>

\* the same table with the two exit moves as 1 then 0
SentBits(op) ==
    IF op \in {"jtag_exit1_ir_to_rti", "jtag_exit1_dr_to_rti"}
      THEN <<1, 0>>
      ELSE TableBits(op)

\* C4 as claimed: each move appends one TMS command whose bits, in
\* transmission order, are those of the table (the exit moves 0,1).
C4_TableBits ==
    pc = "tap_send" => (OneTmsCmd /\ TmsBits(jtag_buf) = TableBits(unit.op))

\* C4: each move appends one TMS command whose bits, in transmission order,
\* are those of the table, except that the two exit moves send 1 then 0.
C4_SentBits ==
    pc = "tap_send" => (OneTmsCmd /\ TmsBits(jtag_buf) = SentBits(unit.op))

C4_Witness ==
    /\ pc = "tap_send"
    /\ unit.op = "jtag_exit1_dr_to_rti"
    /\ unit.from = "Exit1DR"
    /\ TmsBits(jtag_buf) = <<1, 0>>

(***************************************************************************)
(* The tail path on its own: a capture of t bits, t in 1..8, of every      *)
(* 8-bit device value, over a transport that moves every byte              *)
(***************************************************************************)
\* what the unused bits of a reply byte may hold
StaleBytes == {0, 255, 90, 165}

InitTail ==
    /\ pc = "tail"
    /\ jtag_buf = <<>>
    /\ hw = HwInit("Idle")
    /\ dev \in 0..255
    /\ stale \in {<<a, b>> : a \in StaleBytes, b \in StaleBytes}
    /\ xport = "ok"
    /\ irLog = <<>>
    /\ wfail = FALSE
    /\ dr = DrNone
    /\ tdo = <<>>
    /\ rbuf = <<-1, -1>>
    /\ rv = RvNone
    /\ ret = 0
    /\ idcode = 0
    /\ unit = UnitNone
    /\ mn = MainNone

\* jtag_dr_read(buf, t)
TailCall ==
    /\ pc = "tail"
    /\ \E t \in 1..8 : DrBegin(<<>>, NULL, TRUE, t, "tail")
    /\ UNCHANGED <<unit, mn, hw, dev, stale, xport, irLog, wfail, rbuf, rv, ret, idcode>>

NextTail ==
    \/ TailCall
    \/ DrTail
    \/ DrSendLast
    \/ RecvRead
    \/ DrRecvBitsDone

SpecTail == InitTail /\ [][NextTail]_vars

\* C6: the low t bits of the device value v, shifted through the tail path
\* of a bridge that shifts captured bits in at bit 7, are decoded by
\* jtag_recv_bits as v mod 2^t whatever the unused reply bits held.
C6_TailRoundTrip ==
    (pc = "done" /\ dr.caller = "tail") =>
      /\ ret = 0
      /\ dr.n = dr.bits_remaining
      /\ tdo = << dev % Pow2[dr.n + 1] >>

C6_Witness ==
    /\ pc = "done"
    /\ dr.caller = "tail"
    /\ dr.n = 5
    /\ dev = 183
    /\ stale = <<255, 90>>
    /\ tdo = <<23>>

(***************************************************************************)
(* main, by the length of the command buffer: mn.jtag_buf_i is jtag_buf_i, *)
(* every append adds the length of the bytes the encoder stores, and every *)
(* ftdi_write_data either takes the whole buffer or does not               *)
(***************************************************************************)
engine == <<pc, jtag_buf, hw, dev, stale, xport, irLog, wfail, dr, tdo, rbuf,
            rv, ret, idcode, unit>>

\* the 13 bytes jtag_init stores before its jtag_send (lines 240-264)
jtag_init_bytes == <<128, 8, 11, 130, 0, 0, 138, 134, 0, 0, 141, 151, 135>>


\* a variant of jtag_send that leaves jtag_buf_i as it is
SendLenKeep(i, ok) == i

\* jtag_buf_i after jtag_send; ok: ftdi_write_data returned jtag_buf_i
SendLen(i, ok) == IF i < 1 THEN i ELSE IF ok THEN 0 ELSE i

\* what jtag_send returns
SendRet(i, ok) == IF i < 1 THEN 1 ELSE IF ok THEN 0 ELSE 1

\* the lengths fread may give that load_fdata accepts: 1 .. FDATA_SIZE - 1,
\* here the shortest, one that needs a second chunk, and the longest
PayloadLens == {1, JTAG_CHUNK_SIZE + 2, FDATA_SIZE - 1}

InitMain ==
    /\ pc = "main"
    /\ jtag_buf = <<>>
    /\ hw = HwInit("Reset")
    /\ dev = 147
    /\ stale = <<90, 255>>
    /\ xport = "any"
    /\ irLog = <<>>
    /\ wfail = FALSE
    /\ dr = DrNone
    /\ tdo = <<>>
    /\ rbuf = <<-1, -1>>
    /\ rv = RvNone
    /\ ret = 0
    /\ idcode = 0
    /\ unit = UnitNone
    /\ mn = [MainNone EXCEPT !.pc = "jtag_init"]

\* return main_exit(1, ...)
MainFail == [mn EXCEPT !.pc = "main_exit", !.ret = 1]

\* jtag_init up to its jtag_send; up: malloc, open and configuration went well
MainInit ==
    /\ mn.pc = "jtag_init"
    /\ \E up \in BOOLEAN :
         mn' = IF up
                 THEN [mn EXCEPT !.jtag_buf_i = Len(jtag_init_bytes),
                                 !.pc = "init_send"]
                 ELSE [mn EXCEPT !.pc = "exit", !.ret = 1]
    /\ UNCHANGED engine

\* lines 266-274
MainInitSend ==
    /\ mn.pc = "init_send"
    /\ \E ok \in BOOLEAN :
         mn' = [mn EXCEPT !.jtag_buf_i = SendLen(@, ok),
                          !.pc = IF SendRet(mn.jtag_buf_i, ok) = 0
                                   THEN "sync" ELSE "exit",
                          !.freed = SendRet(mn.jtag_buf_i, ok) # 0,
                          !.ret = SendRet(mn.jtag_buf_i, ok)]
    /\ UNCHANGED engine

\* jtag_mpsse_sync, line 585
MainSync ==
    /\ mn.pc = "sync"
    /\ mn' = [mn EXCEPT !.jtag_buf_i = @ + Len(jtag_mpsse_sync_bytes),
                        !.pc = "sync_send"]
    /\ UNCHANGED engine

\* jtag_mpsse_sync, lines 586-588: the result of jtag_send is not looked at;
\* ub: a read of its jtag_recv returned -1 and the cursor left the array
MainSyncSend ==
    /\ mn.pc = "sync_send"
    /\ \E ok \in BOOLEAN, synced \in BOOLEAN, ub \in BOOLEAN :
         mn' = IF synced
                 THEN [mn EXCEPT !.jtag_buf_i = SendLen(@, ok), !.pc = "test",
                                 !.ub = @ \/ ub]
                 ELSE [MainFail EXCEPT !.jtag_buf_i = SendLen(@, ok),
                                       !.ub = @ \/ ub]
    /\ UNCHANGED engine

\* lines 689-694: one byte written past the command buffer, the result of
\* jtag_recv dropped; ub: a read returned -1 and the cursor left the array
MainTest ==
    /\ mn.pc = "test"
    /\ \E w \in BOOLEAN, ub \in BOOLEAN :
         mn' = IF w THEN [mn EXCEPT !.pc = "start", !.ub = @ \/ ub] ELSE MainFail
    /\ UNCHANGED engine

\* lines 698-704 up to the jtag_send of jtag_dr_op inside jtag_get_idcode
MainStart ==
    /\ mn.pc = "start"
    /\ mn' = [mn EXCEPT
                !.jtag_buf_i = @ + Len(jtag_to_tlr) + Len(jtag_tlr_to_rti)
                    + Len(jtag_ir_write(JTAG_INSTR_IDCODE))
                    + Len(jtag_rti_to_shift_dr)
                    + Len(jtag_shift_bytes(NULL, WholeBytes(32), TRUE))
                    + Len(jtag_shift_bits(NULL, TailBits(32), TRUE))
                    + Len(jtag_exit1_dr_to_rti),
                !.pc = "idcode_send"]
    /\ UNCHANGED engine

\* the rest of jtag_get_idcode and the check of line 710; got: the replies
\* came and the idcode is the expected one; ub: a read of a jtag_recv (there
\* is one only after a flush that went well) returned -1
MainIdcodeSend ==
    /\ mn.pc = "idcode_send"
    /\ \E ok \in BOOLEAN, got \in BOOLEAN, ub \in BOOLEAN :
         mn' = IF SendRet(mn.jtag_buf_i, ok) = 0 /\ got
                 THEN [mn EXCEPT !.jtag_buf_i = SendLen(@, ok), !.pc = "load",
                                 !.ub = @ \/ ub]
                 ELSE [MainFail EXCEPT !.jtag_buf_i = SendLen(@, ok),
                                       !.ub = @ \/ (ub /\ SendRet(mn.jtag_buf_i, ok) = 0)]
    /\ UNCHANGED engine

\* load_fdata (lines 714-715), then jtag_ir_write(JTAG_INSTR_JSHUTDOWN)
MainLoad ==
    /\ mn.pc = "load"
    /\ \/ mn' = MainFail
       \/ \E fl \in PayloadLens :
            mn' = [mn EXCEPT
                     !.flength = fl,
                     !.jtag_buf_i = @ + Len(jtag_ir_write(JTAG_INSTR_JSHUTDOWN)),
                     !.i = 0,
                     !.pc = "shutdown_spin"]
    /\ UNCHANGED engine

\* the bound of the spin loop main is in
SpinDelay == IF mn.pc \in {"shutdown_spin", "shutdown_send"}
               THEN JTAG_SHUTDOWN_DELAY ELSE JTAG_STARTUP_DELAY

\* jtag_rti_spin up to its jtag_send
MainSpin ==
    /\ mn.pc \in {"shutdown_spin", "startup_spin"}
    /\ mn.i < SpinDelay
    /\ mn' = [mn EXCEPT
                !.jtag_buf_i = @ + Len(jtag_rti_spin_bytes),
                !.pc = IF mn.pc = "shutdown_spin" THEN "shutdown_send"
                       ELSE "startup_send"]
    /\ UNCHANGED engine

\* the jtag_send of jtag_rti_spin, its result dropped, and i++
MainSpinSend ==
    /\ mn.pc \in {"shutdown_send", "startup_send"}
    /\ \E ok \in BOOLEAN :
         mn' = [mn EXCEPT
                  !.jtag_buf_i = SendLen(@, ok),
                  !.i = @ + 1,
                  !.failed = @ \/ SendRet(mn.jtag_buf_i, ok) # 0,
                  !.pc = IF mn.pc = "shutdown_send" THEN "shutdown_spin"
                         ELSE "startup_spin"]
    /\ UNCHANGED engine

\* line 725 and jtag_dr_write(fdata, flength * 8) up to its chunk loop
MainCfgIn ==
    /\ mn.pc = "shutdown_spin"
    /\ ~(mn.i < SpinDelay)
    /\ mn' = [mn EXCEPT
                !.jtag_buf_i = @ + Len(jtag_ir_write(JTAG_INSTR_CFG_IN))
                                 + Len(jtag_rti_to_shift_dr),
                !.bytes_remaining = WholeBytes(mn.flength * 8),
                !.pc = IF WholeBytes(mn.flength * 8) > 0 THEN "dr_chunk"
                       ELSE "dr_tail"]
    /\ UNCHANGED engine

\* jtag_dr_op lines 479-495
MainDrChunk ==
    /\ mn.pc = "dr_chunk"
    /\ LET cl == ChunkLen(mn.bytes_remaining)
       IN  mn' = [mn EXCEPT
                    !.jtag_buf_i = @ + Len(jtag_shift_bytes(SrcPtr(0), cl, FALSE)),
                    !.bytes_remaining = @ - cl,
                    !.pc = IF MoreChunks(mn.bytes_remaining - cl) THEN "dr_send"
                           ELSE IF mn.bytes_remaining - cl > 0 THEN "dr_chunk"
                           ELSE "dr_tail"]
    /\ UNCHANGED engine

\* jtag_dr_op lines 497-501
MainDrSend ==
    /\ mn.pc = "dr_send"
    /\ \E ok \in BOOLEAN :
         mn' = IF SendRet(mn.jtag_buf_i, ok) = 0
                 THEN [mn EXCEPT !.jtag_buf_i = SendLen(@, ok), !.pc = "dr_chunk"]
                 ELSE [MainFail EXCEPT !.jtag_buf_i = SendLen(@, ok),
                                       !.failed = TRUE]
    /\ UNCHANGED engine

\* jtag_dr_op lines 516-525
MainDrTail ==
    /\ mn.pc = "dr_tail"
    /\ mn' = [mn EXCEPT
                !.jtag_buf_i = @
                    + Len(jtag_shift_bits(SrcPtr(0), TailBits(mn.flength * 8), FALSE))
                    + Len(jtag_exit1_dr_to_rti),
                !.pc = "dr_send_last"]
    /\ UNCHANGED engine

\* jtag_dr_op lines 528-532, then line 734 and the start of the second loop
MainDrSendLast ==
    /\ mn.pc = "dr_send_last"
    /\ \E ok \in BOOLEAN :
         mn' = IF SendRet(mn.jtag_buf_i, ok) = 0
                 THEN [mn EXCEPT
                         !.jtag_buf_i = SendLen(@, ok)
                                          + Len(jtag_ir_write(JTAG_INSTR_JSTART)),
                         !.i = 0,
                         !.pc = "startup_spin"]
                 ELSE [MainFail EXCEPT !.jtag_buf_i = SendLen(@, ok),
                                       !.failed = TRUE]
    /\ UNCHANGED engine

\* line 741
MainFinish ==
    /\ mn.pc = "startup_spin"
    /\ ~(mn.i < SpinDelay)
    /\ mn' = [mn EXCEPT !.jtag_buf_i = @ + Len(jtag_to_tlr), !.pc = "final_send"]
    /\ UNCHANGED engine

\* lines 743-746
MainFinalSend ==
    /\ mn.pc = "final_send"
    /\ \E ok \in BOOLEAN :
         mn' = [mn EXCEPT !.jtag_buf_i = SendLen(@, ok),
                          !.ret = IF SendRet(mn.jtag_buf_i, ok) # 0 THEN 1 ELSE 0,
                          !.failed = @ \/ SendRet(mn.jtag_buf_i, ok) # 0,
                          !.pc = "main_exit"]
    /\ UNCHANGED engine

\* main_exit up to its jtag_send: jtag_to_tlr stores three bytes through
\* jtag_buf; through a NULL jtag_buf the stores are undefined, the process
\* is killed ("crash") or goes on
MainExit ==
    /\ mn.pc = "main_exit"
    /\ \/ mn' = [mn EXCEPT !.jtag_buf_i = @ + Len(jtag_to_tlr),
                            !.nullStore = @ \/ mn.freed,
                            !.pc = "exit_send"]
       \/ /\ mn.freed
          /\ mn' = [mn EXCEPT !.nullStore = TRUE, !.pc = "crash"]
    /\ UNCHANGED engine

\* after a jtag_recv whose cursor left its array (lines 160-166) the
\* behaviour is undefined: main goes on, or the program is killed, at once or
\* at any step before main returns
MainKilled ==
    /\ mn.ub
    /\ mn.pc \notin {"exit", "crash", "killed"}
    /\ mn' = [MainNone EXCEPT !.pc = "killed", !.ub = TRUE]
    /\ UNCHANGED engine

\* main_exit: jtag_send, jtag_close, return
MainExitSend ==
    /\ mn.pc = "exit_send"
    /\ \E ok \in BOOLEAN :
         mn' = [mn EXCEPT !.jtag_buf_i = SendLen(@, ok),
                          !.freed = TRUE,
                          !.closes = @ + 1,
                          !.pc = "exit"]
    /\ UNCHANGED engine

NextMain ==
    \/ MainInit
    \/ MainInitSend
    \/ MainSync
    \/ MainSyncSend
    \/ MainTest
    \/ MainStart
    \/ MainIdcodeSend
    \/ MainLoad
    \/ MainSpin
    \/ MainSpinSend
    \/ MainCfgIn
    \/ MainDrChunk
    \/ MainDrSend
    \/ MainDrTail
    \/ MainDrSendLast
    \/ MainFinish
    \/ MainFinalSend
    \/ MainExit
    \/ MainExitSend
    \/ MainKilled

SpecMain == InitMain /\ [][NextMain]_vars

\* C10: in every state of a run of main, whatever writes fail, jtag_buf_i is
\* within 0 .. JTAG_BUFFER_SIZE, so no append stores past the end of jtag_buf.
C10_BufferFits ==
    /\ mn.jtag_buf_i >= 0
    /\ mn.jtag_buf_i <= JTAG_BUFFER_SIZE

\* every flush of the first spin loop failed, and a full chunk follows
C10_Witness ==
    /\ mn.pc = "dr_send"
    /\ mn.flength = FDATA_SIZE - 1
    /\ mn.jtag_buf_i >= JTAG_SHUTDOWN_DELAY * Len(jtag_rti_spin_bytes) + JTAG_CHUNK_SIZE

(***************************************************************************)
(* jtag_send, checked on every step of Spec                                *)
(***************************************************************************)
\* this step called ftdi_write_data
Wrote == hw'.writes # hw.writes

\* C11: a step makes at most one ftdi_write_data call, on a buffer that is
\* not empty; when the call returns the buffered byte count the buffer
\* becomes empty and the operation goes on; when it returns anything else
\* the buffer keeps its length and contents and the operation returns 1; and
\* the buffer is emptied by no step other than a fully accepted write.
C11_Flush ==
    [][ /\ hw'.writes \in {hw.writes, hw.writes + 1}
        /\ Wrote => Len(jtag_buf) >= 1
        /\ (Wrote /\ hw'.wret = Len(jtag_buf)) =>
              /\ jtag_buf' = <<>>
              /\ ~(pc' = "done" /\ ret' = 1)
        /\ (Wrote /\ hw'.wret # Len(jtag_buf)) =>
              /\ jtag_buf' = jtag_buf
              /\ pc' = "done"
              /\ ret' = 1
        /\ (Len(jtag_buf') < Len(jtag_buf)) =>
              /\ Wrote
              /\ hw'.wret = Len(jtag_buf)
              /\ jtag_buf' = <<>>
      ]_vars

\* a short write was refused: one byte of a longer buffer was accepted, the
\* buffer is as it was and the operation has returned 1
C11_Witness ==
    /\ pc = "done"
    /\ ret = 1
    /\ hw.writes = 2
    /\ hw.wret = 1
    /\ Len(jtag_buf) > 1

\* main has left the programming sequence through main_exit
MainLeft == mn.pc \in {"main_exit", "exit_send", "exit"}

\* C12 as claimed: once a flush of the programming sequence has failed, one
\* inside jtag_rti_spin included, main is on its way out and returns nonzero:
\* nothing more of the sequence is encoded or sent.
C12_AbortOnFailure ==
    mn.failed => (MainLeft /\ mn.ret # 0)

(***************************************************************************)
(* jtag_dr_op on its own, with arguments main never passes: no buffer at   *)
(* all, and bit lengths below 1.  The TAP is in Idle; the command buffer   *)
(* is empty or holds an instruction write not yet flushed, as in main.     *)
(***************************************************************************)
ArgLens == {-9, -1, 0, 1, 8}

InitArgs ==
    /\ pc = "args"
    /\ jtag_buf \in {<<>>, jtag_ir_write(JTAG_INSTR_CFG_IN)}
    /\ hw = HwInit("Idle")
    /\ dev \in DevSeeds
    /\ stale \in StaleSeqs
    /\ xport \in {"ok", "any"}
    /\ irLog = <<>>
    /\ wfail = FALSE
    /\ dr = DrNone
    /\ tdo = <<>>
    /\ rbuf = <<-1, -1>>
    /\ rv = RvNone
    /\ ret = 0
    /\ idcode = 0
    /\ unit = UnitNone
    /\ mn = MainNone

\* the call; unit keeps the arguments and the buffer as it was
ArgCall ==
    /\ pc = "args"
    /\ \E n \in ArgLens, rd \in BOOLEAN :
         \E tdi \in {NULL} \cup {SrcPtr(s) : s \in TdiSeeds} :
           /\ unit' = [op |-> "jtag_dr_op", from |-> hw.tap, tdi |-> tdi,
                       rd |-> rd, n |-> n, buf |-> jtag_buf]
           /\ jtag_dr_op(tdi, rd, n)
    /\ UNCHANGED <<mn, hw, dev, stale, xport, irLog, wfail, rbuf, rv, idcode>>

NextArgs ==
    \/ ArgCall
    \/ DrTail
    \/ DrSendLast
    \/ RecvRead
    \/ DrRecvBitsDone
    \/ Killed

SpecArgs == InitArgs /\ [][NextArgs]_vars

\* C13: jtag_dr_op with tdi and tdo both NULL returns 1 and changes nothing:
\* the command buffer is as it was, no write or read was made, the bridge and
\* the TAP are untouched.
C13_NullArgs ==
    (unit.op = "jtag_dr_op" /\ unit.tdi = NULL /\ ~unit.rd) =>
      /\ pc = "done"
      /\ ret = 1
      /\ jtag_buf = unit.buf
      /\ hw = HwInit("Idle")
      /\ rv = RvNone
      /\ dr = DrNone
      /\ tdo = <<>>

C13_Witness ==
    /\ unit.op = "jtag_dr_op"
    /\ unit.tdi = NULL
    /\ ~unit.rd
    /\ unit.n = 8
    /\ unit.buf # <<>>
    /\ pc = "done"
    /\ ret = 1

\* C14 as claimed: jtag_dr_op with n < 1 returns 1 and emits nothing, so the
\* buffer is as it was and the TAP stays in Idle.
C14_ZeroLengthRejected ==
    (unit.op = "jtag_dr_op" /\ unit.n < 1) =>
      /\ pc = "done"
      /\ ret = 1
      /\ jtag_buf = unit.buf
      /\ hw.tap = "Idle"

\* what jtag_dr_op does with n < 1 and a buffer: it returns 0 with the TAP
\* parked in Pause-DR after one edge in Shift-DR
ZeroLengthOutcome ==
    (unit.op = "jtag_dr_op" /\ unit.n < 1 /\ pc = "done" /\ ret = 0) =>
      /\ hw.tap = "PauseDR"
      /\ hw.drPos = 1

(***************************************************************************)
(* jtag_mpsse_sync on its own, over a transport that may refuse the write  *)
(* and may hold reply bytes nobody has read yet                            *)
(***************************************************************************)
\* reply bytes the transport holds when jtag_mpsse_sync is called
PendingReplies == {<<>>, <<250>>, <<0, 250>>, <<250, 170>>}

\* what buf[2] of jtag_mpsse_sync may hold before anything is stored in it:
\* -1 stands for a byte that is neither 0xFA nor 0xAA
UninitBufs == {<<-1, -1>>, <<250, 170>>}

\* ret | c for an int ret >= 0 and a comparison result c
OrFlag(r, c) == IF c /\ r % 2 = 0 THEN r + 1 ELSE r

InitSync ==
    /\ pc = "sync"
    /\ jtag_buf = <<>>
    /\ \E q \in PendingReplies : hw = [HwInit("Reset") EXCEPT !.out = q]
    /\ dev \in DevSeeds
    /\ stale \in StaleSeqs
    /\ xport \in {"ok", "any"}
    /\ irLog = <<>>
    /\ wfail = FALSE
    /\ dr = DrNone
    /\ tdo = <<>>
    /\ rbuf \in UninitBufs
    /\ rv = RvNone
    /\ ret = 0
    /\ idcode = 0
    /\ unit = UnitNone
    /\ mn = MainNone

\* line 585
SyncCall ==
    /\ pc = "sync"
    /\ jtag_buf' = jtag_buf \o jtag_mpsse_sync_bytes
    /\ unit' = [op |-> "jtag_mpsse_sync", from |-> hw.tap]
    /\ pc' = "sync_send"
    /\ UNCHANGED <<mn, hw, dev, stale, xport, irLog, wfail, dr, tdo, rbuf, rv, ret, idcode>>

\* lines 586-587: jtag_send(), its result dropped, and the call of jtag_recv
SyncSend ==
    /\ pc = "sync_send"
    /\ \E l \in WriteRets(Len(jtag_buf)) : jtag_send(l)
    /\ rv' = RecvStart("rbuf", 0, 2)
    /\ pc' = "sync_recv"
    /\ UNCHANGED <<unit, mn, dev, stale, xport, irLog, dr, tdo, rbuf, ret, idcode>>

\* line 588
SyncDone ==
    /\ pc = "sync_recv"
    /\ rv.done
    /\ ret' = OrFlag(OrFlag(rv.n, rbuf[1] # 250), rbuf[2] # 170)
    /\ pc' = "done"
    /\ rv' = RecvEnd
    /\ UNCHANGED <<unit, mn, jtag_buf, hw, dev, stale, xport, irLog, wfail, dr, tdo, rbuf, idcode>>

NextSync ==
    \/ SyncCall
    \/ SyncSend
    \/ RecvRead
    \/ SyncDone
    \/ Killed

SpecSync == InitSync /\ [][NextSync]_vars

\* jtag_mpsse_sync has returned
SyncReturned == unit.op = "jtag_mpsse_sync" /\ pc = "done"

\* what a jtag_mpsse_sync that returned 0 leaves queued is what the state at
\* line 698 is built from
SyncLeavesBehind ==
    (SyncReturned /\ ret = 0) =>
      /\ jtag_buf \in {<<>>, jtag_mpsse_sync_bytes}
      /\ hw.out \in SyncLeft(jtag_buf)

\* C15 as claimed: jtag_mpsse_sync returns 0 exactly when the 0xAA byte was
\* accepted by the transport and the two bytes then received are 0xFA 0xAA.
C15_SyncIff ==
    SyncReturned =>
      ((ret = 0) <=> /\ hw.writes = 1
                     /\ hw.wret = 1
                     /\ rv.n = 0
                     /\ rbuf = <<250, 170>>)

\* what the code decides on: the result of jtag_recv and the two bytes
SyncOutcome ==
    SyncReturned => ((ret = 0) <=> (rv.n = 0 /\ rbuf = <<250, 170>>))

(***************************************************************************)
(* The four moves of an instruction write in a row, from any TAP state:    *)
(* with nothing shifted between the last two, or as jtag_ir_write has them *)
(***************************************************************************)
InitChain ==
    /\ pc = "chain"
    /\ jtag_buf = <<>>
    /\ \E t \in TapStates : hw = HwInit(t)
    /\ dev \in DevSeeds
    /\ stale \in StaleSeqs
    /\ xport \in {"ok", "any"}
    /\ irLog = <<>>
    /\ wfail = FALSE
    /\ dr = DrNone
    /\ tdo = <<>>
    /\ rbuf = <<-1, -1>>
    /\ rv = RvNone
    /\ ret = 0
    /\ idcode = 0
    /\ unit = UnitNone
    /\ mn = MainNone

\* jtag_to_tlr(); jtag_tlr_to_rti(); then jtag_rti_to_shift_ir();
\* jtag_exit1_ir_to_rti(); or, with shift, jtag_ir_write(ins)
ChainCall ==
    /\ pc = "chain"
    /\ \E shift \in BOOLEAN, ins \in Instrs :
         /\ jtag_buf' = jtag_buf \o jtag_to_tlr \o jtag_tlr_to_rti
               \o (IF shift THEN jtag_ir_write(ins)
                   ELSE jtag_rti_to_shift_ir \o jtag_exit1_ir_to_rti)
         /\ unit' = [op |-> "chain", from |-> hw.tap, shift |-> shift,
                     ins |-> IF shift THEN ins ELSE 0]
    /\ pc' = "tap_send"
    /\ UNCHANGED <<mn, hw, dev, stale, xport, irLog, wfail, dr, tdo, rbuf, rv, ret, idcode>>

NextChain ==
    \/ ChainCall
    \/ TapSend

SpecChain == InitChain /\ [][NextChain]_vars

\* the chain was flushed whole
ChainDone == pc = "tap_done" /\ ~wfail /\ unit.op = "chain"

\* C16 as claimed: the four moves with no shift in between, flushed, leave
\* the TAP in Idle from any starting state.
C16_ChainToIdle ==
    (ChainDone /\ ~unit.shift) => hw.tap = "Idle"

\* C16: the four moves with no shift in between leave the TAP in Pause-IR
\* from any starting state (the exit move starts in Shift-IR, not Exit1-IR);
\* with the 6 instruction bits shifted in between, as jtag_ir_write does, the
\* TAP is back in Idle and the scan carried the instruction.
C16_ChainEnds ==
    /\ (ChainDone /\ ~unit.shift) => hw.tap = "PauseIR"
    /\ (ChainDone /\ unit.shift) =>
          /\ hw.tap = "Idle"
          /\ hw.irScans[Len(hw.irScans)] = InstrBits(unit.ins)

C16_Witness ==
    /\ ChainDone
    /\ ~unit.shift
    /\ unit.from = "ShiftDR"
    /\ hw.tap = "PauseIR"

(***************************************************************************)
(* main with a caller that tears the session down a second time: after     *)
(* main_exit has returned, main_exit is called once more                   *)
(***************************************************************************)
ExitAgain ==
    /\ mn.pc = "exit"
    /\ mn.closes = 1
    /\ mn' = [mn EXCEPT !.pc = "main_exit"]
    /\ UNCHANGED engine

NextExit ==
    \/ MainInit
    \/ MainInitSend
    \/ MainSync
    \/ MainSyncSend
    \/ MainTest
    \/ MainStart
    \/ MainIdcodeSend
    \/ MainLoad
    \/ MainSpin
    \/ MainSpinSend
    \/ MainCfgIn
    \/ MainDrChunk
    \/ MainDrSend
    \/ MainDrTail
    \/ MainDrSendLast
    \/ MainFinish
    \/ MainFinalSend
    \/ MainExit
    \/ MainExitSend
    \/ MainKilled
    \/ ExitAgain

SpecExit == InitMain /\ [][NextExit]_vars

\* C17 as claimed: main_exit can be performed in every state after a
\* successful jtag_init, a second time included, and never stores to a
\* command buffer that was freed; the second teardown changes nothing.
C17_TeardownIdempotent ==
    /\ ~mn.nullStore
    /\ mn.pc # "crash"

\* the first teardown is safe wherever main calls it: the buffer is still
\* allocated and the three bytes fit
FirstTeardownSafe ==
    (mn.pc = "exit_send" /\ mn.closes = 0) =>
      /\ ~mn.nullStore
      /\ mn.jtag_buf_i <= JTAG_BUFFER_SIZE

(***************************************************************************)
(* A whole run of main from line 698 on, byte by byte, over a transport    *)
(* whose calls all succeed and that held no reply when jtag_mpsse_sync was *)
(* called                                                                  *)
(***************************************************************************)

\* payload lengths in bytes that load_fdata may leave in flength
RunLens == {1, 2, JTAG_CHUNK_SIZE + 2}

InitRun ==
    /\ pc = "start"
    /\ jtag_buf = <<>>
    /\ \E t \in TapStates : hw = HwInit(t)
    /\ dev \in DevSeeds
    /\ stale \in StaleSeqs
    /\ xport = "ok"
    /\ irLog = <<>>
    /\ wfail = FALSE
    /\ dr = DrNone
    /\ tdo = <<>>
    /\ rbuf = <<-1, -1>>
    /\ rv = RvNone
    /\ ret = 0
    /\ idcode = 0
    /\ unit = UnitNone
    /\ mn = MainNone

\* lines 710-718: the idcode test, load_fdata, jtag_ir_write(JSHUTDOWN)
RunLoad ==
    /\ pc = "idle"
    /\ IF ~IdcodeOk(idcode)
         THEN /\ pc' = "main_exit"
              /\ ret' = 1
              /\ UNCHANGED <<jtag_buf, irLog, mn>>
         ELSE \/ /\ pc' = "main_exit"
                 /\ ret' = 1
                 /\ UNCHANGED <<jtag_buf, irLog, mn>>
              \/ \E fl \in RunLens :
                   /\ mn' = [mn EXCEPT !.flength = fl, !.i = 0]
                   /\ jtag_buf' = jtag_buf \o jtag_ir_write(JTAG_INSTR_JSHUTDOWN)
                   /\ irLog' = Append(irLog, JTAG_INSTR_JSHUTDOWN)
                   /\ pc' = "shutdown_spin"
                   /\ UNCHANGED ret
    /\ UNCHANGED <<unit, hw, dev, stale, xport, wfail, dr, tdo, rbuf, rv, idcode>>

RunDelay == IF pc \in {"shutdown_spin", "shutdown_send"}
              THEN JTAG_SHUTDOWN_DELAY ELSE JTAG_STARTUP_DELAY

\* lines 721-722 and 737-738: one more jtag_rti_spin, up to its jtag_send
RunSpin ==
    /\ pc \in {"shutdown_spin", "startup_spin"}
    /\ mn.i < RunDelay
    /\ jtag_buf' = jtag_buf \o jtag_rti_spin_bytes
    /\ pc' = IF pc = "shutdown_spin" THEN "shutdown_send" ELSE "startup_send"
    /\ UNCHANGED <<unit, mn, hw, dev, stale, xport, irLog, wfail, dr, tdo, rbuf, rv, ret, idcode>>

\* line 315: the jtag_send that ends jtag_rti_spin, its result dropped
RunSpinSend ==
    /\ pc \in {"shutdown_send", "startup_send"}
    /\ \E l \in WriteRets(Len(jtag_buf)) : jtag_send(l)
    /\ mn' = [mn EXCEPT !.i = @ + 1]
    /\ pc' = IF pc = "shutdown_send" THEN "shutdown_spin" ELSE "startup_spin"
    /\ UNCHANGED <<unit, dev, stale, xport, irLog, dr, tdo, rbuf, rv, ret, idcode>>

\* lines 725-729: jtag_ir_write(CFG_IN), then jtag_dr_write(fdata, flength * 8)
RunCfgIn ==
    /\ pc = "shutdown_spin"
    /\ mn.i >= RunDelay
    /\ \E seed \in TdiSeeds :
         DrBegin(jtag_ir_write(JTAG_INSTR_CFG_IN), SrcPtr(seed), FALSE,
                 mn.flength * 8, "main")
    /\ irLog' = Append(irLog, JTAG_INSTR_CFG_IN)
    /\ UNCHANGED <<unit, mn, hw, dev, stale, xport, wfail, rbuf, rv, ret, idcode>>

\* line 734: jtag_ir_write(JSTART)
RunJstart ==
    /\ pc = "jstart"
    /\ jtag_buf' = jtag_buf \o jtag_ir_write(JTAG_INSTR_JSTART)
    /\ irLog' = Append(irLog, JTAG_INSTR_JSTART)
    /\ mn' = [mn EXCEPT !.i = 0]
    /\ pc' = "startup_spin"
    /\ UNCHANGED <<unit, hw, dev, stale, xport, wfail, dr, tdo, rbuf, rv, ret, idcode>>

\* line 741: the last jtag_to_tlr of main
RunFinish ==
    /\ pc = "startup_spin"
    /\ mn.i >= RunDelay
    /\ jtag_buf' = jtag_buf \o jtag_to_tlr
    /\ pc' = "final_send"
    /\ UNCHANGED <<unit, mn, hw, dev, stale, xport, irLog, wfail, dr, tdo, rbuf, rv, ret, idcode>>

\* lines 743-746: the final flush, then main_exit(1, ..) or main_exit(0, ..)
RunFinalSend ==
    /\ pc = "final_send"
    /\ \E l \in WriteRets(Len(jtag_buf)) :
         /\ jtag_send(l)
         /\ ret' = IF SendOk(l) THEN 0 ELSE 1
    /\ pc' = "main_exit"
    /\ UNCHANGED <<unit, mn, dev, stale, xport, irLog, dr, tdo, rbuf, rv, idcode>>

\* lines 663-664: main_exit returns the TAP to Test-Logic-Reset
RunExit ==
    /\ pc = "main_exit"
    /\ jtag_buf' = jtag_buf \o jtag_to_tlr
    /\ pc' = "exit_send"
    /\ UNCHANGED <<unit, mn, hw, dev, stale, xport, irLog, wfail, dr, tdo, rbuf, rv, ret, idcode>>

\* lines 664-666: the flush of main_exit, jtag_close, return
RunExitSend ==
    /\ pc = "exit_send"
    /\ \E l \in WriteRets(Len(jtag_buf)) : jtag_send(l)
    /\ mn' = [mn EXCEPT !.freed = TRUE, !.closes = @ + 1]
    /\ pc' = "exit"
    /\ UNCHANGED <<unit, dev, stale, xport, irLog, dr, tdo, rbuf, rv, ret, idcode>>

NextRun ==
    \/ Startup
    \/ CallGetIdcode
    \/ DrChunk
    \/ DrSend
    \/ DrTail
    \/ DrSendLast
    \/ DrRecvLastDone
    \/ DrRecvBitsDone
    \/ RecvRead
    \/ RunLoad
    \/ RunSpin
    \/ RunSpinSend
    \/ RunCfgIn
    \/ RunJstart
    \/ RunFinish
    \/ RunFinalSend
    \/ RunExit
    \/ RunExitSend

SpecRun == InitRun /\ [][NextRun]_vars

\* the bridge after it has also executed the commands still in jtag_buf
Emitted == MpsseWrite(hw, jtag_buf)

\* the positions of main at which an operation begins or has just returned
OpBoundary == pc \in {"probe", "idle", "shutdown_spin", "startup_spin", "jstart"}

\* C18: in a run of main whose transport calls all succeed, simulating the
\* TAP graph on the commands emitted so far gives Idle wherever jtag_ir_write,
\* jtag_dr_op or jtag_rti_spin begins or returns; no data shift command is
\* clocked outside Shift-IR or Shift-DR, every clock-only edge is clocked in
\* Idle, and the TAP is in Reset after the final flush.
C18_TapTracked ==
    /\ OpBoundary => Emitted.tap = "Idle"
    /\ Emitted.stray = 0
    /\ Emitted.spin = Emitted.idleSpin
    /\ (pc = "main_exit" /\ ret = 0) => (jtag_buf = <<>> /\ hw.tap = "Reset")
    /\ pc = "exit" => (jtag_buf = <<>> /\ hw.tap = "Reset")

C18_Witness ==
    /\ pc = "exit"
    /\ ret = 0
    /\ mn.flength = 2
    /\ hw.drPos = 16
    /\ hw.tap = "Reset"
    /\ hw.spin = (JTAG_SHUTDOWN_DELAY + JTAG_STARTUP_DELAY) * 1024
    /\ Len(hw.irScans) = 4
    /\ hw.stray = 0

(***************************************************************************)
(* Reply accounting, checked under Spec                                    *)
(***************************************************************************)

\* reply bytes the bridge has produced since the current jtag_dr_op began
Produced == hw.made - dr.made0

\* bytes the current jtag_dr_op has asked jtag_recv for
Requested == rv.asked - dr.asked0

\* reply bytes the bridge produces for the commands of one jtag_rti_spin
SpinReplies == MpsseWrite(HwInit("Idle"), jtag_rti_spin_bytes).made

\* C19 as claimed: a successful jtag_dr_op has asked jtag_recv for exactly as many bytes
\* as its read-enabled commands made the bridge produce, and the two agree
\* each time a chunk has been flushed and is read back; instruction writes,
\* write-only transfers, TMS moves and spins produce no reply bytes; after a
\* successful operation no reply byte is left queued.  (The spin commands do
\* not depend on the state, so they are run once, from the initial states.)
C19_ReplyBalance ==
    /\ OpDone => (Produced = Requested /\ hw.out = <<>>)
    /\ (OpDone /\ ~dr.rd) => Produced = 0
    /\ pc = "dr_recv" => Produced = Requested
    /\ pc = "idle" => Emitted.made = hw.made
    /\ pc = "start" => SpinReplies = 0

\* when nothing is left over from jtag_mpsse_sync and the test transfer the
\* replies are balanced, whatever the transport does afterwards
ReplyBalanceOnCleanStart == hw.carried = 0 => C19_ReplyBalance

\* C20 as claimed: a jtag_recv into a buffer keeps its write cursor within
\* [rbuf, rbuf + n], its outstanding count within 0..n, and stores nothing
\* outside the buffer, whatever ftdi_read_data returns.
C20_RecvInBounds ==
    rv.tgt \in {"tdo", "rbuf"} =>
      /\ rv.cur >= 0
      /\ rv.cur <= rv.n0
      /\ rv.n >= 0
      /\ rv.n <= rv.n0
      /\ ~rv.oob

\* with reads that return a count from 0 to the size asked for, the cursor and
\* the outstanding count do stay in range
RecvInBoundsOnCounts ==
    (rv.tgt \in {"tdo", "rbuf"} /\ xport = "ok") =>
      /\ rv.cur >= 0
      /\ rv.cur <= rv.n0
      /\ rv.n >= 0
      /\ rv.n <= rv.n0
      /\ ~rv.oob
====
